---------------------------- MODULE Spec2Model ----------------------------
(***************************************************************************)
(* A model of gvariant.js: the GVariant codec (nextType, parseType, parse, *)
(* serialize) as recursive operators over signatures, values and byte      *)
(* buffers, driven by a small state machine that picks an input and        *)
(* applies the public operations to it.                                    *)
(*                                                                         *)
(* Conventions                                                             *)
(*   - a JS string (a signature, a text value) is a sequence of character  *)
(*     codes; a buffer is a sequence of bytes 0..255.  JS indexes from 0,  *)
(*     TLA+ from 1: buf[i] of the source is buf[i + 1] here.               *)
(*   - a JS value is a record tagged by k: number, boolean, string, null,  *)
(*     array, object (the mapping an a{KV} read returns), variant.         *)
(*   - an exception is the outcome [k |-> "throw", v |-> <error name>].    *)
(***************************************************************************)
EXTENDS Integers, Sequences, FiniteSets, TLC

VARIABLES typestr, value, data, written, result, pc

vars == <<typestr, value, data, written, result, pc>>

----------------------------------------------------------------------------
(* Bounds of the model                                                     *)

\* longest signature string enumerated for signature validation
MaxSigLen == 4
\* longest array value enumerated
MaxArrayLen == 2
\* longest raw byte sequence handed to parse
MaxRawLen == 3
\* length of the long text values that bring a frame to the 0xFF threshold
LongText == 252

----------------------------------------------------------------------------
(* Characters                                                              *)

\* ASCII codes of the characters the signatures and texts of the model use
Ord ==
  [c \in {"y", "n", "q", "i", "u", "x", "t", "d", "b", "s", "o", "g", "v",
          "m", "(", ")", "{", "}", "a", "z"} |->
    CASE c = "y" -> 121 [] c = "n" -> 110 [] c = "q" -> 113 [] c = "i" -> 105
      [] c = "u" -> 117 [] c = "x" -> 120 [] c = "t" -> 116 [] c = "d" -> 100
      [] c = "b" -> 98  [] c = "s" -> 115 [] c = "o" -> 111 [] c = "g" -> 103
      [] c = "v" -> 118 [] c = "m" -> 109 [] c = "(" -> 40  [] c = ")" -> 41
      [] c = "{" -> 123 [] c = "}" -> 125 [] c = "a" -> 97  [] c = "z" -> 122]

\* the JS string written with the characters cs
Str(cs) == [j \in 1..Len(cs) |-> Ord[cs[j]]]

Min(a, b) == IF a < b THEN a ELSE b
Max(a, b) == IF a > b THEN a ELSE b

\* String.prototype.substr(index, n): n characters from index, cut at the end
Substr(s, index, n) == SubSeq(s, index + 1, Min(index + n, Len(s)))

\* String.prototype.slice(from, to) for 0 <= from
StrSlice(s, from, to) == SubSeq(s, from + 1, Min(to, Len(s)))

\* signature[index] === c  (signature[index] is undefined past the end)
HasChar(signature, index, c) ==
  index >= 0 /\ index < Len(signature) /\ signature[index + 1] = Ord[c]

----------------------------------------------------------------------------
(* Numbers                                                                 *)

\* fixedSize of a descriptor that has none: undefined on s, o, g, v, m and
\* a descriptors, NaN once the tuple or dict-entry sum meets an undefined.
\* Both are falsy and both make every sum NaN.
NaN == -1

Truthy(n) == n # NaN /\ n # 0

Plus(a, b) == IF a = NaN \/ b = NaN THEN NaN ELSE a + b

\* the % of JS: the remainder has the sign of the dividend
JsRem(a, b) == IF a >= 0 THEN a % b ELSE -((-a) % b)

align(n, size) ==
  IF n = NaN THEN NaN ELSE n + JsRem(size - JsRem(n, size), size)

----------------------------------------------------------------------------
(* Type descriptors: nextType and parseType                                *)

\* nextType falls out of its switch: the caller gets undefined
Undefined == [st |-> "undefined"]

\* a property of undefined is read, or parseType throws
Raise(e) == [st |-> e]

Descriptor(id, fixedSize, alignment, elements) ==
  [st |-> "ok", id |-> id, fixedSize |-> fixedSize, alignment |-> alignment,
   elements |-> elements]

RECURSIVE nextType(_, _)
RECURSIVE TupleElements(_, _, _, _, _, _)

\* case 'm' and case 'a': one child, the id cut out of the signature
Unary(signature, index) ==
  LET element == nextType(signature, index + 1) IN
  IF element.st = "undefined" THEN Raise("TypeError")
  ELSE IF element.st # "ok" THEN element
  ELSE Descriptor(Substr(signature, index, Len(element.id) + 1), NaN,
                  element.alignment, <<element>>)

\* case '(': the while loop over the children, then the descriptor
TupleElements(signature, index, end, elements, size, alignment) ==
  IF HasChar(signature, end, ")")
    THEN Descriptor(StrSlice(signature, index, end + 1),
                    IF size = 0 THEN 1 ELSE size, alignment, elements)
    ELSE LET el == nextType(signature, end) IN
         IF el.st = "undefined" THEN Raise("TypeError")
         ELSE IF el.st # "ok" THEN el
         ELSE TupleElements(signature, index, end + Len(el.id),
                            Append(elements, el),
                            Plus(align(size, el.alignment), el.fixedSize),
                            Max(alignment, el.alignment))

\* case '{': key and value, the id cut out of the signature by length
DictEntry(signature, index) ==
  LET key == nextType(signature, index + 1) IN
  IF key.st = "undefined" THEN Raise("TypeError")
  ELSE IF key.st # "ok" THEN key
  ELSE LET val == nextType(signature, index + 1 + Len(key.id)) IN
       IF val.st = "undefined" THEN Raise("TypeError")
       ELSE IF val.st # "ok" THEN val
       ELSE Descriptor(Substr(signature, index, Len(key.id) + Len(val.id) + 2),
                       Plus(align(key.fixedSize, val.alignment), val.fixedSize),
                       Max(key.alignment, val.alignment), <<key, val>>)

nextType(signature, index) ==
  LET Is(c) == HasChar(signature, index, c)
      Leaf(size, al) == Descriptor(<<signature[index + 1]>>, size, al, <<>>)
  IN
  CASE Is("y") -> Leaf(1, 1)
    [] Is("n") -> Leaf(2, 2)
    [] Is("q") -> Leaf(2, 2)
    [] Is("i") -> Leaf(4, 4)
    [] Is("u") -> Leaf(4, 4)
    [] Is("x") -> Leaf(8, 8)
    [] Is("t") -> Leaf(8, 8)
    [] Is("d") -> Leaf(8, 8)
    [] Is("b") -> Leaf(1, 1)
    [] Is("s") \/ Is("o") \/ Is("g") -> Leaf(NaN, 1)
    [] Is("v") -> Leaf(NaN, 8)
    [] Is("m") -> Unary(signature, index)
    [] Is("(") -> TupleElements(signature, index, index + 1, <<>>, 0, 1)
    [] Is("{") -> DictEntry(signature, index)
    [] Is("a") -> Unary(signature, index)
    [] OTHER -> Undefined

parseType(str) ==
  LET type == nextType(str, 0) IN
  IF type.st = "undefined" THEN Raise("TypeError")
  ELSE IF type.st # "ok" THEN type
  ELSE IF Len(type.id) # Len(str) THEN Raise("TypeError")
  ELSE type

\* the first character of a descriptor's id
Code(type, c) == type.id[1] = Ord[c]

----------------------------------------------------------------------------
(* JS values                                                               *)

Num(n) == [k |-> "number", v |-> n]
\* a double, named by the eight bytes of its IEEE-754 form (little-endian)
Dbl(bytes) == [k |-> "number", ieee |-> bytes]
Bool(b) == [k |-> "boolean", v |-> b]
Text(s) == [k |-> "string", v |-> s]
Null == [k |-> "null"]
Arr(xs) == [k |-> "array", v |-> xs]
\* an object: its own properties <<name, value>> in enumeration order
Obj(props) == [k |-> "object", v |-> props]
Variant(type, val) == [k |-> "variant", type |-> type, value |-> val]
Throw(e) == [k |-> "throw", v |-> e]

IsThrow(v) == v.k = "throw"

\* the first thrown outcome of a sequence of outcomes, in order, else Arr
ArrOrThrow(xs) ==
  IF \E j \in 1..Len(xs) : IsThrow(xs[j])
    THEN xs[CHOOSE j \in 1..Len(xs) :
              IsThrow(xs[j]) /\ \A h \in 1..(j - 1) : ~IsThrow(xs[h])]
    ELSE Arr(xs)

RECURSIVE defaultValue(_)
defaultValue(type) ==
  CASE Code(type, "b") -> Bool(FALSE)
    [] Code(type, "d") -> Dbl(<<0, 0, 0, 0, 0, 0, 0, 0>>)
    [] Code(type, "s") \/ Code(type, "o") \/ Code(type, "g") -> Text(<<>>)
    [] Code(type, "v") -> Variant(Str(<<"(", ")">>), Arr(<<>>))
    [] Code(type, "m") -> Null
    [] Code(type, "(") \/ Code(type, "{") ->
         Arr([j \in 1..Len(type.elements) |-> defaultValue(type.elements[j])])
    [] Code(type, "a") -> Arr(<<>>)
    [] OTHER -> Num(0)

----------------------------------------------------------------------------
(* Property names of the object an a{KV} read builds                       *)

RECURSIVE Digits(_)
\* the decimal digits of n >= 0, as character codes
Digits(n) == IF n < 10 THEN <<48 + n>> ELSE Append(Digits(n \div 10), 48 + (n % 10))

RECURSIVE Join(_)
RECURSIVE PropertyName(_)
\* String(v), the name o[v] is stored under
PropertyName(v) ==
  CASE v.k = "string" -> v.v
    [] v.k = "number" /\ "ieee" \notin DOMAIN v ->
         IF v.v < 0 THEN <<45>> \o Digits(-v.v) ELSE Digits(v.v)
    [] v.k = "boolean" -> IF v.v THEN <<116, 114, 117, 101>>
                                 ELSE <<102, 97, 108, 115, 101>>
    [] v.k = "null" -> <<110, 117, 108, 108>>
    [] v.k = "array" -> Join(v.v)
    [] OTHER -> <<91, 111, 98, 106, 101, 99, 116, 32, 79, 98, 106, 101, 99,
                  116, 93>>

\* Array.prototype.join(","): null elements print as the empty string
Join(xs) ==
  IF xs = <<>> THEN <<>>
  ELSE LET one(x) == IF x.k = "null" THEN <<>> ELSE PropertyName(x) IN
       IF Len(xs) = 1 THEN one(xs[1])
       ELSE one(xs[1]) \o <<44>> \o Join(Tail(xs))

\* a canonical array index: "0", or digits without a leading zero, below 2^32 - 1
IsIndex(name) ==
  /\ Len(name) > 0
  /\ \A j \in 1..Len(name) : name[j] >= 48 /\ name[j] <= 57
  /\ (name[1] = 48 => Len(name) = 1)
  /\ Len(name) <= 9

\* a < b for two canonical array indexes
IndexLess(a, b) ==
  \/ Len(a) < Len(b)
  \/ /\ Len(a) = Len(b)
     /\ \E j \in 1..Len(a) : a[j] < b[j] /\ \A h \in 1..(j - 1) : a[h] = b[h]

\* o[name] = val: an own property keeps its place; a new array index goes
\* among the indexes in ascending order, any other new name goes last
SetProperty(props, name, val) ==
  IF \E j \in 1..Len(props) : props[j][1] = name
    THEN [j \in 1..Len(props) |->
            IF props[j][1] = name THEN <<name, val>> ELSE props[j]]
    ELSE IF IsIndex(name)
      THEN LET before == Cardinality({j \in 1..Len(props) :
                            IsIndex(props[j][1]) /\ IndexLess(props[j][1], name)})
           IN SubSeq(props, 1, before) \o << <<name, val>> >>
                \o SubSeq(props, before + 1, Len(props))
      ELSE Append(props, <<name, val>>)

RECURSIVE Reduce(_, _)
\* values.reduce(function (o, v) { o[v[0]] = v[1]; return o; }, {})
Reduce(props, values) ==
  IF values = <<>> THEN Obj(props)
  ELSE Reduce(SetProperty(props, PropertyName(values[1].v[1]), values[1].v[2]),
              Tail(values))

----------------------------------------------------------------------------
(* Reading a Buffer                                                        *)

\* a read of n bytes at off is inside the buffer; outside it readUInt8 and
\* its like throw a RangeError
InBuf(buf, off, n) == off >= 0 /\ off + n <= Len(buf)

RECURSIVE readUIntLE(_, _, _)
readUIntLE(buf, off, n) ==
  IF n = 0 THEN 0 ELSE buf[off + 1] + 256 * readUIntLE(buf, off + 1, n - 1)

RECURSIVE readIntLE(_, _, _)
readIntLE(buf, off, n) ==
  IF n = 1 THEN (IF buf[off + 1] >= 128 THEN buf[off + 1] - 256 ELSE buf[off + 1])
  ELSE buf[off + 1] + 256 * readIntLE(buf, off + 1, n - 1)

\* buf.toString(encoding, start, end): the bytes it decodes
ToStringRange(buf, start, end) ==
  LET s == IF start <= 0 THEN 0 ELSE start
      e == IF end > Len(buf) THEN Len(buf) ELSE end
  IN IF s >= Len(buf) \/ e <= s THEN <<>> ELSE SubSeq(buf, s + 1, e)

\* 'ascii' decoding drops the top bit of every byte
toStringAscii(buf, start, end) ==
  LET bytes == ToStringRange(buf, start, end) IN
  [j \in 1..Len(bytes) |-> bytes[j] % 128]

\* 'utf-8' decoding: a byte below 0x80 is its character; a byte that starts
\* no character decodes to U+FFFD (multi-byte characters are out of the
\* model's inputs)
toStringUtf8(buf, start, end) ==
  LET bytes == ToStringRange(buf, start, end) IN
  [j \in 1..Len(bytes) |-> IF bytes[j] < 128 THEN bytes[j] ELSE 65533]

\* buf.slice(start, end): negative indexes count from the end
slice(buf, start, end) ==
  LET rel(x) == IF x < 0 THEN Max(Len(buf) + x, 0) ELSE Min(x, Len(buf))
  IN IF rel(end) <= rel(start) THEN <<>> ELSE SubSeq(buf, rel(start) + 1, rel(end))

\* str.indexOf('\0') and the substring before it
UpToNul(str) ==
  IF \E j \in 1..Len(str) : str[j] = 0
    THEN SubSeq(str, 1, (CHOOSE j \in 1..Len(str) :
                           str[j] = 0 /\ \A h \in 1..(j - 1) : str[h] # 0) - 1)
    ELSE str

----------------------------------------------------------------------------
(* The offset codec                                                        *)

\* the branch of offsetInfo and of writeOffsets: the cell width for a frame
\* of end - start bytes (0: RangeError)
OffsetSize(start, end) ==
  IF end - start <= 255 THEN 1
  ELSE IF end - start <= 65535 THEN 2
  ELSE IF (end - start) \div 65536 <= 65535 THEN 4
  ELSE 0

offsetInfo(buf, start, end) == [size |-> OffsetSize(start, end)]

\* offsets.read(i) does not throw
OffsetInBuf(buf, start, end, i) ==
  LET size == OffsetSize(start, end) IN InBuf(buf, end + size * i, size)

\* offsets.read(i)
OffsetRead(buf, start, end, i) ==
  LET size == OffsetSize(start, end) IN
  start + readUIntLE(buf, end + size * i, size)

----------------------------------------------------------------------------
(* Readers: type.read(buf, start, end), and parse                          *)

RECURSIVE read(_, _, _, _)
RECURSIVE parse(_, _)

\* y, n, q, i, u, x, t, d, b.  The 64-bit reads are Long.fromBits(lo, hi)
\* .toNumber(), exact below 2^53.
readFixed(type, buf, start, end) ==
  IF end - start # type.fixedSize THEN defaultValue(type)
  ELSE IF ~InBuf(buf, start, type.fixedSize) THEN Throw("RangeError")
  ELSE CASE Code(type, "y") -> Num(readUIntLE(buf, start, 1))
         [] Code(type, "n") -> Num(readIntLE(buf, start, 2))
         [] Code(type, "q") -> Num(readUIntLE(buf, start, 2))
         [] Code(type, "i") -> Num(readIntLE(buf, start, 4))
         [] Code(type, "u") -> Num(readUIntLE(buf, start, 4))
         [] Code(type, "x") -> Num(readIntLE(buf, start, 8))
         [] Code(type, "t") -> Num(readUIntLE(buf, start, 8))
         [] Code(type, "d") -> Dbl(SubSeq(buf, start + 1, start + 8))
         [] Code(type, "b") -> Bool(buf[start + 1] # 0)

\* s, o, g
readString(type, buf, start, end) ==
  IF start = end THEN defaultValue(type)
  ELSE IF ~InBuf(buf, end - 1, 1) THEN Throw("RangeError")
  ELSE IF buf[end] # 0 THEN defaultValue(type)
  ELSE Text(UpToNul(toStringUtf8(buf, start, end - 1)))

\* the while loop of the variant reader: where it stops, or that it threw.
\* sep runs down from end - 1 to the first zero byte, to start - 1 when
\* there is none; a read outside the buffer throws.
findSep(buf, start, sep) ==
  LET zeros == {j \in Max(start, 0)..sep : buf[j + 1] = 0} IN
  IF sep < start THEN [thrown |-> FALSE, sep |-> sep]
  ELSE IF ~InBuf(buf, sep, 1) THEN [thrown |-> TRUE, sep |-> sep]
  ELSE IF zeros # {}
    THEN [thrown |-> FALSE, sep |-> CHOOSE j \in zeros : \A h \in zeros : h <= j]
  ELSE IF start < 0 THEN [thrown |-> TRUE, sep |-> -1]
  ELSE [thrown |-> FALSE, sep |-> start - 1]

\* v
readVariant(type, buf, start, end) ==
  LET found == findSep(buf, start, end - 1) IN
  IF found.thrown THEN Throw("RangeError")
  ELSE LET vtype == toStringAscii(buf, found.sep + 1, end)
           vdata == slice(buf, start, found.sep)
           val == parse(vtype, vdata)
       IN IF IsThrow(val) THEN val ELSE Variant(vtype, val)

\* m
readMaybe(type, buf, start, end) ==
  LET element == type.elements[1] IN
  IF start = end THEN Null
  ELSE IF Truthy(element.fixedSize)
    THEN IF end - start # element.fixedSize THEN Null
         ELSE read(element, buf, start, end)
    ELSE read(element, buf, start, end - 1)

RECURSIVE TupleWindows(_, _, _, _, _, _, _, _)
\* the for loop of the tuple reader without its el.read calls: the window
\* [cur, next) of every child, up to an offsets.read that throws
TupleWindows(type, buf, start, end, i, cur, curOffset, windows) ==
  IF i > Len(type.elements) THEN [thrown |-> FALSE, windows |-> windows]
  ELSE
    LET el == type.elements[i]
        at == align(cur, el.alignment)
        viaOffset == ~Truthy(el.fixedSize) /\ i < Len(type.elements)
        nextOffset == IF viaOffset THEN curOffset - 1 ELSE curOffset
        next == IF Truthy(el.fixedSize) THEN at + el.fixedSize
                ELSE IF viaOffset THEN OffsetRead(buf, start, end, nextOffset)
                ELSE end - offsetInfo(buf, start, end).size * (-curOffset)
    IN IF viaOffset /\ ~OffsetInBuf(buf, start, end, nextOffset)
         THEN [thrown |-> TRUE, windows |-> windows]
         ELSE TupleWindows(type, buf, start, end, i + 1, next, nextOffset,
                           Append(windows, [cur |-> at, next |-> next]))

\* the outcome of a loop that read the children over their windows
ReadWindows(element, buf, w) ==
  LET values == [j \in 1..Len(w.windows) |->
                   read(element[j], buf, w.windows[j].cur, w.windows[j].next)]
      out == ArrOrThrow(values)
  IN IF IsThrow(out) THEN out
     ELSE IF w.thrown THEN Throw("RangeError")
     ELSE out

\* (
readTuple(type, buf, start, end) ==
  IF Truthy(type.fixedSize) /\ end - start # type.fixedSize
    THEN defaultValue(type)
  ELSE IF offsetInfo(buf, start, end).size = 0 THEN Throw("RangeError")
  ELSE ReadWindows(type.elements, buf,
                   TupleWindows(type, buf, start, end, 1, start, 0, <<>>))

\* {
readDictEntry(type, buf, start, end) ==
  LET key == type.elements[1]
      val == type.elements[2]
  IN
  IF Truthy(type.fixedSize) /\ end - start # type.fixedSize
    THEN defaultValue(type)
  ELSE IF offsetInfo(buf, start, end).size = 0 THEN Throw("RangeError")
  ELSE IF ~Truthy(key.fixedSize) /\ ~OffsetInBuf(buf, start, end, -1)
    THEN Throw("RangeError")
  ELSE
    LET keyEnd == IF Truthy(key.fixedSize) THEN start + key.fixedSize
                  ELSE OffsetRead(buf, start, end, -1)
        valueEnd == IF Truthy(key.fixedSize) THEN end
                    ELSE end - offsetInfo(buf, start, end).size
    IN ArrOrThrow(<<read(key, buf, start, keyEnd),
                    read(val, buf, align(keyEnd, val.alignment), valueEnd)>>)

RECURSIVE FixedWindows(_, _, _, _, _)
\* the for loop of the array reader, fixed-size elements
FixedWindows(fixedSize, n, i, cur, windows) ==
  IF i >= n THEN [thrown |-> FALSE, windows |-> windows]
  ELSE FixedWindows(fixedSize, n, i + 1, cur + fixedSize,
                    Append(windows, [cur |-> cur, next |-> cur + fixedSize]))

RECURSIVE OffsetWindows(_, _, _, _, _, _, _, _)
\* the for loop of the array reader, variable-size elements: i runs while
\* i < n for n = num / size, and offsets.read(-n + i) reads the cell at
\* byte end - num + size * i
OffsetWindows(element, buf, start, end, num, i, cur, windows) ==
  LET size == offsetInfo(buf, start, end).size
      cell == end - num + size * i
  IN
  IF size * i >= num THEN [thrown |-> FALSE, windows |-> windows]
  ELSE IF ~InBuf(buf, cell, size) THEN [thrown |-> TRUE, windows |-> windows]
  ELSE LET next == start + readUIntLE(buf, cell, size) IN
       OffsetWindows(element, buf, start, end, num, i + 1,
                     align(next, element.alignment),
                     Append(windows, [cur |-> cur, next |-> next]))

\* a
readArray(type, buf, start, end) ==
  LET element == type.elements[1]
      size == end - start
      windows ==
        IF Truthy(element.fixedSize)
          THEN FixedWindows(element.fixedSize, size \div element.fixedSize,
                            0, start, <<>>)
          ELSE IF ~OffsetInBuf(buf, start, end, -1)
            THEN [thrown |-> TRUE, windows |-> <<>>]
            ELSE OffsetWindows(element, buf, start, end,
                               end - OffsetRead(buf, start, end, -1), 0, start,
                               <<>>)
      values == ReadWindows([j \in 1..Len(windows.windows) |-> element], buf,
                            windows)
  IN
  IF start = end
    THEN (IF Code(element, "{") THEN Obj(<<>>) ELSE Arr(<<>>))
  ELSE IF Truthy(element.fixedSize) /\ JsRem(size, element.fixedSize) # 0
    THEN Arr(<<>>)
  ELSE IF ~Truthy(element.fixedSize) /\ offsetInfo(buf, start, end).size = 0
    THEN Throw("RangeError")
  ELSE IF IsThrow(values) THEN values
  ELSE IF Code(element, "{") THEN Reduce(<<>>, values.v)
  ELSE values

read(type, buf, start, end) ==
  CASE Code(type, "s") \/ Code(type, "o") \/ Code(type, "g") ->
         readString(type, buf, start, end)
    [] Code(type, "v") -> readVariant(type, buf, start, end)
    [] Code(type, "m") -> readMaybe(type, buf, start, end)
    [] Code(type, "(") -> readTuple(type, buf, start, end)
    [] Code(type, "{") -> readDictEntry(type, buf, start, end)
    [] Code(type, "a") -> readArray(type, buf, start, end)
    [] OTHER -> readFixed(type, buf, start, end)

parse(str, bytes) ==
  LET type == parseType(str) IN
  IF type.st # "ok" THEN Throw(type.st)
  ELSE read(type, bytes, 0, Len(bytes))

----------------------------------------------------------------------------
(* The dynamic buffer of a serialize call.  Beside the bytes (buf) the     *)
(* writer state keeps two histories the properties read, the code does not:*)
(* places, one entry per child written (where, the child's alignment, and  *)
(* the buffer length before the padding), and frames, one entry per tuple, *)
(* dict-entry or array written.                                            *)

NewBuffer == [st |-> "ok", buf |-> <<>>, places |-> <<>>, frames |-> <<>>]

\* the n little-endian bytes of v modulo 2^(8n); past 32 bits the sign
\* extension of v, which is what Long.fromNumber gives a 32-bit v
LEBytes(v, n) ==
  [j \in 1..n |-> IF j <= 4 THEN (v \div (256 ^ (j - 1))) % 256
                  ELSE IF v < 0 THEN 255 ELSE 0]

\* buf.append(text): the UTF-8 bytes of the text
Utf8Bytes(c) ==
  IF c < 128 THEN <<c>>
  ELSE IF c < 2048 THEN <<192 + (c \div 64), 128 + (c % 64)>>
  ELSE <<224 + (c \div 4096), 128 + ((c \div 64) % 64), 128 + (c % 64)>>

RECURSIVE Utf8(_)
Utf8(text) ==
  IF text = <<>> THEN <<>>
  ELSE IF Len(text) = 1 THEN Utf8Bytes(text[1])
  ELSE Utf8(SubSeq(text, 1, Len(text) \div 2))
         \o Utf8(SubSeq(text, (Len(text) \div 2) + 1, Len(text)))

\* buf.appendUInt8 and its like: bytes go to the end of the buffer
append(w, bytes) == IF w.st # "ok" THEN w ELSE [w EXCEPT !.buf = @ \o bytes]

\* buf.align(n): zero bytes up to a multiple of n
bufAlign(w, n) ==
  IF w.st # "ok" THEN w
  ELSE append(w, [j \in 1..((n - (Len(w.buf) % n)) % n) |-> 0])

\* history: the child el is written at the end of the buffer, which held
\* from bytes before the container aligned it
Placed(w, el, container, from) ==
  IF w.st # "ok" THEN w
  ELSE [w EXCEPT !.places = Append(@, [id |-> el.id, at |-> Len(w.buf),
                                       alignment |-> el.alignment,
                                       container |-> container,
                                       from |-> from])]

\* history: a frame [start, end) was written
Framed(w, frame) ==
  IF w.st # "ok" THEN w ELSE [w EXCEPT !.frames = Append(@, frame)]

RECURSIVE Cells(_, _)
Cells(offsets, size) ==
  IF offsets = <<>> THEN <<>>
  ELSE LEBytes(Head(offsets), size) \o Cells(Tail(offsets), size)

writeOffsets(w, offsets, start, end) ==
  IF w.st # "ok" THEN w
  ELSE IF OffsetSize(start, end) = 0 THEN [w EXCEPT !.st = "RangeError"]
  ELSE append(w, Cells(offsets, OffsetSize(start, end)))

\* reverse with the reversal forgotten: the offsets stay in recording order
reverseNot(xs) == xs

\* Array.prototype.reverse
reverse(xs) == [j \in 1..Len(xs) |-> xs[Len(xs) + 1 - j]]

----------------------------------------------------------------------------
(* Writers: type.write(value, buf), and serialize                          *)

RECURSIVE write(_, _, _)

\* y, n, q, i, u, x, t, d, b
writeFixed(type, val, w) ==
  CASE Code(type, "d") -> append(w, val.ieee)
    [] Code(type, "b") -> append(w, <<IF val.v THEN 1 ELSE 0>>)
    [] OTHER -> append(w, LEBytes(val.v, type.fixedSize))

\* s, o, g
writeString(type, val, w) == append(append(w, Utf8(val.v)), <<0>>)

\* v
writeVariant(type, val, w) ==
  LET vtype == parseType(val.type) IN
  IF w.st # "ok" THEN w
  ELSE IF vtype.st # "ok" THEN [w EXCEPT !.st = "TypeError"]
  ELSE append(append(write(vtype, val.value, Placed(w, vtype, "v", Len(w.buf))), <<0>>),
              Utf8(val.type))

\* m
writeMaybe(type, val, w) ==
  LET element == type.elements[1]
      aligned == bufAlign(w, type.alignment)
      just == write(element, val, Placed(aligned, element, "m", Len(w.buf)))
  IN IF val.k = "null" THEN aligned
     ELSE IF ~Truthy(element.fixedSize) THEN append(just, <<0>>)
     ELSE just

RECURSIVE TupleWrite(_, _, _, _, _, _, _)
\* ( : the for loop, then writeOffsets
TupleWrite(type, val, i, start, offsets, at, w) ==
  IF w.st # "ok" THEN w
  ELSE IF i > Len(type.elements)
    THEN Framed(writeOffsets(w, reverse(offsets), start, Len(w.buf)),
                [id |-> type.id, start |-> start, at |-> at,
                 tableAt |-> Len(w.buf), recorded |-> offsets,
                 size |-> OffsetSize(start, Len(w.buf)),
                 end |-> Len(writeOffsets(w, reverse(offsets), start,
                                          Len(w.buf)).buf)])
    ELSE
      LET el == type.elements[i]
          aligned == bufAlign(w, el.alignment)
          done == write(el, val.v[i], Placed(aligned, el, "(", Len(w.buf)))
          pushed == IF ~Truthy(el.fixedSize) /\ i < Len(type.elements)
                      THEN Append(offsets, Len(done.buf) - start)
                      ELSE offsets
      IN TupleWrite(type, val, i + 1, start, pushed,
                    Append(at, Len(aligned.buf)), done)

writeTuple(type, val, w) ==
  IF w.st # "ok" THEN w
  ELSE TupleWrite(type, val, 1, Len(w.buf), <<>>, <<>>, w)

\* writeDictEntry with buf.align(this.value.alignment) forgotten
writeDictEntryUnaligned(type, val, w) ==
  LET key == type.elements[1]
      elt == type.elements[2]
      start == Len(w.buf)
      keyDone == write(key, val.v[1], Placed(w, key, "{", Len(w.buf)))
      keyEnd == Len(keyDone.buf) - start
      valDone == write(elt, val.v[2], Placed(keyDone, elt, "{", Len(keyDone.buf)))
      offsets == IF ~Truthy(key.fixedSize) THEN <<keyEnd>> ELSE <<>>
      out == IF ~Truthy(key.fixedSize)
               THEN writeOffsets(valDone, offsets, start, Len(valDone.buf))
               ELSE valDone
  IN IF w.st # "ok" THEN w
     ELSE Framed(out, [id |-> type.id, start |-> start,
                       at |-> <<start, Len(keyDone.buf)>>,
                       tableAt |-> Len(valDone.buf), recorded |-> offsets,
                       size |-> OffsetSize(start, Len(valDone.buf)),
                       end |-> Len(out.buf)])

\* {
writeDictEntry(type, val, w) ==
  LET key == type.elements[1]
      elt == type.elements[2]
      start == Len(w.buf)
      keyDone == write(key, val.v[1], Placed(w, key, "{", Len(w.buf)))
      keyEnd == Len(keyDone.buf) - start
      aligned == bufAlign(keyDone, elt.alignment)
      valDone == write(elt, val.v[2], Placed(aligned, elt, "{", Len(keyDone.buf)))
      offsets == IF ~Truthy(key.fixedSize) THEN <<keyEnd>> ELSE <<>>
      out == IF ~Truthy(key.fixedSize)
               THEN writeOffsets(valDone, offsets, start, Len(valDone.buf))
               ELSE valDone
  IN IF w.st # "ok" THEN w
     ELSE Framed(out, [id |-> type.id, start |-> start,
                       at |-> <<start, Len(aligned.buf)>>,
                       tableAt |-> Len(valDone.buf), recorded |-> offsets,
                       size |-> OffsetSize(start, Len(valDone.buf)),
                       end |-> Len(out.buf)])

RECURSIVE ArrayWrite(_, _, _, _, _, _, _)
\* a : the for loop of either branch, then writeOffsets in the second
ArrayWrite(type, elems, i, start, offsets, at, w) ==
  LET element == type.elements[1] IN
  IF w.st # "ok" THEN w
  ELSE IF i > Len(elems)
    THEN LET out == IF Truthy(element.fixedSize) THEN w
                    ELSE writeOffsets(w, offsets, start, Len(w.buf))
         IN Framed(out, [id |-> type.id, start |-> start, at |-> at,
                         tableAt |-> Len(w.buf), recorded |-> offsets,
                         size |-> OffsetSize(start, Len(w.buf)),
                         end |-> Len(out.buf)])
    ELSE
      LET aligned == bufAlign(w, element.alignment)
          done == write(element, elems[i], Placed(aligned, element, "a", Len(w.buf)))
          pushed == IF Truthy(element.fixedSize) THEN offsets
                    ELSE Append(offsets, Len(done.buf) - start)
      IN ArrayWrite(type, elems, i + 1, start, pushed,
                    Append(at, Len(aligned.buf)), done)

\* for (i in value) array.push([ i, value[i] ])
Pairs(val) ==
  IF val.k = "array" THEN val.v
  ELSE [j \in 1..Len(val.v) |-> Arr(<<Text(val.v[j][1]), val.v[j][2]>>)]

writeArray(type, val, w) ==
  IF w.st # "ok" THEN w
  ELSE ArrayWrite(type, Pairs(val), 1, Len(w.buf), <<>>, <<>>, w)

write(type, val, w) ==
  CASE Code(type, "s") \/ Code(type, "o") \/ Code(type, "g") ->
         writeString(type, val, w)
    [] Code(type, "v") -> writeVariant(type, val, w)
    [] Code(type, "m") -> writeMaybe(type, val, w)
    [] Code(type, "(") -> writeTuple(type, val, w)
    [] Code(type, "{") -> writeDictEntry(type, val, w)
    [] Code(type, "a") -> writeArray(type, val, w)
    [] OTHER -> writeFixed(type, val, w)

serialize(str, val) ==
  LET type == parseType(str) IN
  IF type.st # "ok" THEN [NewBuffer EXCEPT !.st = type.st]
  ELSE write(type, val, NewBuffer)

----------------------------------------------------------------------------
(* Inputs                                                                  *)

\* the text of n letters a
Letters(n) == [j \in 1..n |-> 97]

\* the signatures serialized and parsed back
Signatures ==
  { Str(cs) : cs \in
      { <<"y">>, <<"b">>, <<"n">>, <<"i">>, <<"d">>, <<"s">>, <<"v">>,
        <<"m", "i">>, <<"m", "s">>, <<"m", "(", ")">>,
        <<"(", ")">>, <<"(", "i", "y", ")">>, <<"(", "y", "i", ")">>,
        <<"(", "s", "i", ")">>, <<"(", "s", "s", ")">>,
        <<"(", "s", "s", "s", ")">>, <<"(", "s", "y", "s", "(", ")", ")">>,
        <<"(", "y", "v", ")">>, <<"(", "y", "m", "i", ")">>,
        <<"(", "y", "a", "n", ")">>, <<"(", "y", "{", "y", "i", "}", ")">>,
        <<"(", "y", "(", "y", "x", ")", ")">>, <<"(", "s", "v", ")">>,
        <<"a", "{", "y", "v", "}">>,
        <<"(", "(", ")", "i", ")">>, <<"(", "(", ")", "v", ")">>,
        <<"(", "(", ")", "a", "s", ")">>,
        <<"{", "s", "y", "}">>, <<"{", "i", "y", "}">>, <<"{", "s", "s", "}">>,
        <<"{", "(", ")", "v", "}">>,
        <<"a", "y">>, <<"a", "i">>, <<"a", "s">>, <<"a", "v">>,
        <<"a", "(", ")">>, <<"a", "(", "i", "y", ")">>,
        <<"a", "{", "i", "y", "}">>, <<"a", "{", "s", "y", "}">>,
        <<"a", "{", "s", "v", "}">> } }

TextValues == {Text(Letters(0)), Text(Letters(1)), Text(Letters(LongText))}

VariantValues ==
  { Variant(Str(<<"(", ")">>), Arr(<<>>)),
    Variant(Str(<<"i">>), Num(-1)),
    Variant(Str(<<"s">>), Text(Letters(1))) }

\* all sequences of at most n members of S
SeqsUpTo(S, n) == UNION {[1..m -> S] : m \in 0..n}

RECURSIVE Product(_, _)
\* the sequences whose j-th member is in sets[j], from index i on
Product(sets, i) ==
  IF i > Len(sets) THEN {<<>>}
  ELSE {<<x>> \o rest : x \in sets[i], rest \in Product(sets, i + 1)}

RECURSIVE Domain(_)
\* values of the type, a few of each
Domain(type) ==
  CASE Code(type, "y") -> {Num(0), Num(255)}
    [] Code(type, "b") -> {Bool(FALSE), Bool(TRUE)}
    [] Code(type, "n") -> {Num(0), Num(-2)}
    [] Code(type, "q") -> {Num(0), Num(65535)}
    [] Code(type, "i") -> {Num(0), Num(-1)}
    [] Code(type, "u") -> {Num(0), Num(7)}
    [] Code(type, "x") -> {Num(0), Num(-1)}
    [] Code(type, "t") -> {Num(0), Num(9)}
    [] Code(type, "d") -> {Dbl(<<0, 0, 0, 0, 0, 0, 0, 0>>),
                           Dbl(<<0, 0, 0, 0, 0, 0, 240, 63>>)}
    [] Code(type, "s") \/ Code(type, "o") \/ Code(type, "g") -> TextValues
    [] Code(type, "v") -> VariantValues
    [] Code(type, "m") -> {Null} \cup Domain(type.elements[1])
    [] Code(type, "(") \/ Code(type, "{") ->
         {Arr(xs) : xs \in
            Product([j \in 1..Len(type.elements) |-> Domain(type.elements[j])], 1)}
    [] Code(type, "a") ->
         LET element == type.elements[1]
             all == {Arr(xs) : xs \in SeqsUpTo(Domain(element), MaxArrayLen)}
             textKey == Code(element, "{") /\ Code(element.elements[1], "s")
             distinct(xs) == \A i, j \in 1..Len(xs) :
                                xs[i].v[1] = xs[j].v[1] => i = j
         IN IF textKey
              THEN {Obj([j \in 1..Len(a.v) |-> <<a.v[j].v[1].v, a.v[j].v[2]>>]) :
                      a \in {b \in all : distinct(b.v)}}
              ELSE all

RECURSIVE Canonical(_, _)
\* the value as a reader represents it: under a{KV} a sequence of pairs is
\* the mapping it lists
Canonical(type, val) ==
  CASE Code(type, "(") \/ Code(type, "{") ->
         Arr([j \in 1..Len(val.v) |-> Canonical(type.elements[j], val.v[j])])
    [] Code(type, "m") ->
         IF val.k = "null" THEN val ELSE Canonical(type.elements[1], val)
    [] Code(type, "v") ->
         Variant(val.type, Canonical(parseType(val.type), val.value))
    [] Code(type, "a") ->
         LET element == type.elements[1]
             items == [j \in 1..Len(Pairs(val)) |-> Canonical(element, Pairs(val)[j])]
         IN IF Code(element, "{") THEN Reduce(<<>>, items) ELSE Arr(items)
    [] OTHER -> val

\* the signatures raw bytes are parsed under
DecodeSignatures ==
  { Str(cs) : cs \in
      { <<"y">>, <<"i">>, <<"s">>, <<"v">>, <<"m", "s">>, <<"(", ")">>,
        <<"(", "s", "y", ")">>, <<"(", "y", "s", ")">>, <<"{", "s", "y", "}">>,
        <<"a", "y">>, <<"a", "s">>, <<"a", "(", ")">>, <<"a", "{", "s", "y", "}">> } }

\* the bytes raw input is made of: NUL, 1, 2 and the characters ( ) i s
RawBytes == {0, 1, 2, Ord["("], Ord[")"], Ord["i"], Ord["s"]}

RawData == SeqsUpTo(RawBytes, MaxRawLen)

\* the characters signature strings are made of
SigChars == {Ord[c] : c \in {"i", "s", "a", "(", ")", "{", "}", "z"}}

SigStrings == SeqsUpTo(SigChars, MaxSigLen)

----------------------------------------------------------------------------
(* The state machine: an input is picked, then the public operations run   *)

None == [k |-> "none"]

\* a signature and a value of its domain (its default among them)
InitCodec ==
  /\ typestr \in Signatures
  /\ value \in Domain(parseType(typestr)) \cup {defaultValue(parseType(typestr))}
  /\ data = <<>>
  /\ written = NewBuffer
  /\ result = None
  /\ pc = "ready"

\* a signature and arbitrary bytes
InitDecode ==
  /\ typestr \in DecodeSignatures
  /\ value = None
  /\ data \in RawData
  /\ written = NewBuffer
  /\ result = None
  /\ pc = "received"

\* an arbitrary signature string
InitSignature ==
  /\ typestr \in SigStrings
  /\ value = None
  /\ data = <<>>
  /\ written = NewBuffer
  /\ result = None
  /\ pc = "signature"

\* serialize(typestr, value); buf.toBuffer() is the data
Serialize ==
  /\ pc = "ready"
  /\ written' = serialize(typestr, value)
  /\ data' = written'.buf
  /\ pc' = IF written'.st = "ok" THEN "serialized" ELSE "failed"
  /\ UNCHANGED <<typestr, value, result>>

\* parse(typestr, data)
Parse ==
  /\ pc \in {"serialized", "received"}
  /\ result' = parse(typestr, data)
  /\ pc' = "parsed"
  /\ UNCHANGED <<typestr, value, data, written>>

\* parseType(typestr), the first statement of parse and of serialize
Validate ==
  /\ pc = "signature"
  /\ result' = (IF parseType(typestr).st = "ok"
                  THEN [k |-> "type", id |-> parseType(typestr).id]
                  ELSE Throw(parseType(typestr).st))
  /\ pc' = "validated"
  /\ UNCHANGED <<typestr, value, data, written>>

NextCodec == Serialize \/ Parse

Spec == InitCodec /\ [][NextCodec]_vars

SpecDecode == InitDecode /\ [][Parse]_vars

SpecSignature == InitSignature /\ [][Validate]_vars

----------------------------------------------------------------------------
(* Vocabulary of the properties                                            *)

\* the descriptor of the signature under test
Type == parseType(typestr)

RECURSIVE TypeEnd(_, _)
RECURSIVE ChildrenEnd(_, _)
\* the grammar of signatures: the index past the complete type that starts
\* at index i of s, or -1 when none starts there
TypeEnd(s, i) ==
  LET Is(c) == HasChar(s, i, c) IN
  IF \E c \in {"y", "n", "q", "i", "u", "x", "t", "d", "b", "s", "o", "g", "v"} :
       Is(c)
    THEN i + 1
  ELSE IF Is("m") \/ Is("a") THEN TypeEnd(s, i + 1)
  ELSE IF Is("(") THEN ChildrenEnd(s, i + 1)
  ELSE IF Is("{")
    THEN LET k == TypeEnd(s, i + 1)
             v == IF k = -1 THEN -1 ELSE TypeEnd(s, k)
         IN IF v # -1 /\ HasChar(s, v, "}") THEN v + 1 ELSE -1
  ELSE -1

\* the index past the ) that closes the children starting at index i
ChildrenEnd(s, i) ==
  IF HasChar(s, i, ")") THEN i + 1
  ELSE LET e == TypeEnd(s, i) IN IF e = -1 THEN -1 ELSE ChildrenEnd(s, e)

\* exactly one complete type and no trailing characters
WellFormed(s) == TypeEnd(s, 0) = Len(s)

RECURSIVE HasType(_, _)
\* val is in the domain of the type
HasType(type, val) ==
  CASE Code(type, "b") -> val.k = "boolean"
    [] Code(type, "s") \/ Code(type, "o") \/ Code(type, "g") -> val.k = "string"
    [] Code(type, "v") ->
         /\ val.k = "variant"
         /\ WellFormed(val.type)
         /\ parseType(val.type).st = "ok"
         /\ HasType(parseType(val.type), val.value)
    [] Code(type, "m") -> val.k = "null" \/ HasType(type.elements[1], val)
    [] Code(type, "(") \/ Code(type, "{") ->
         /\ val.k = "array"
         /\ Len(val.v) = Len(type.elements)
         /\ \A j \in 1..Len(val.v) : HasType(type.elements[j], val.v[j])
    [] Code(type, "a") ->
         \/ /\ val.k = "array"
            /\ \A j \in 1..Len(val.v) : HasType(type.elements[1], val.v[j])
         \/ /\ val.k = "object"
            /\ Code(type.elements[1], "{")
            /\ \A j \in 1..Len(val.v) :
                 HasType(type.elements[1].elements[2], val.v[j][2])
    [] OTHER -> val.k = "number"

RECURSIVE HasEmptyTuple(_)
\* the type contains the empty tuple
HasEmptyTuple(type) ==
  \/ type.id = Str(<<"(", ")">>)
  \/ \E j \in 1..Len(type.elements) : HasEmptyTuple(type.elements[j])

RECURSIVE AlignmentsDeclared(_)
\* every alignment of the descriptor is 1, 2, 4 or 8, and a container's is
\* the largest of its children's, 1 when it has none
AlignmentsDeclared(type) ==
  /\ type.alignment \in {1, 2, 4, 8}
  /\ type.elements # <<>> =>
       /\ \A j \in 1..Len(type.elements) :
            type.alignment >= type.elements[j].alignment
       /\ \E j \in 1..Len(type.elements) :
            type.alignment = type.elements[j].alignment
  /\ type.elements = <<>> /\ Code(type, "(") => type.alignment = 1
  /\ \A j \in 1..Len(type.elements) : AlignmentsDeclared(type.elements[j])

\* the children of a tuple that get an offset cell: variable-size, not last
Offsetted(type) ==
  {j \in 1..(Len(type.elements) - 1) : ~Truthy(type.elements[j].fixedSize)}

\* the k-th of them, in element order
NthOffsetted(type, k) ==
  CHOOSE j \in Offsetted(type) :
    Cardinality({h \in Offsetted(type) : h <= j}) = k

Serialized == pc \in {"serialized", "parsed"}

----------------------------------------------------------------------------
(* Properties                                                              *)

\* C1: round trip: parsing what serialize wrote for a value of the
\* signature's domain gives that value back.
RoundTrip ==
  pc = "parsed" /\ HasType(Type, value) => result = Canonical(Type, value)

\* C2: totality of decode: under a well-formed signature parse returns, for
\* every byte sequence, a value of the signature's domain and never throws.
DecodeTotal ==
  pc = "parsed" /\ WellFormed(typestr) =>
    ~IsThrow(result) /\ HasType(Type, result)

\* C3: signature validation: a signature string that is not well-formed
\* (not exactly one complete type) is refused with an error.
InvalidSignatureRaises ==
  pc = "validated" /\ ~WellFormed(typestr) => IsThrow(result)

\* C4: default round trip: serializing the default value of a signature and
\* parsing the bytes gives the default value back, without an error.
DefaultRoundTrip ==
  pc = "parsed" /\ value = defaultValue(Type) =>
    ~IsThrow(result) /\ result = Canonical(Type, value)

\* C5: offset-cell width agreement: for every frame serialize wrote, the
\* width writeOffsets chose (from the length before the table) is the width
\* offsetInfo infers from the whole frame.
OffsetWidthAgreement ==
  Serialized =>
    \A j \in 1..Len(written.frames) :
      LET f == written.frames[j] IN
      f.size = offsetInfo(data, f.start, f.end).size

\* C6: empty tuple encoding: serialize("()", []) is the single byte 0, and
\* parse("()", b) is [] for every b of one byte.
EmptyTupleEncoding ==
  /\ Serialized /\ typestr = Str(<<"(", ")">>) => data = <<0>>
  /\ pc = "parsed" /\ typestr = Str(<<"(", ")">>) /\ Len(data) = 1 =>
       result = Arr(<<>>)

\* the second half of C6 alone: parse("()", b) is [] for every b of one byte
\* (the property of the decoder, for the specification SpecDecode)
EmptyTupleParse ==
  pc = "parsed" /\ typestr = Str(<<"(", ")">>) /\ Len(data) = 1 =>
    result = Arr(<<>>)

\* C7: alignment of embedded values: every value serialize embeds (tuple
\* element, dict-entry key and value, array element, maybe and variant
\* payload) starts at a multiple of its type's alignment, after zero
\* padding only; alignments are 1, 2, 4 or 8 and a container's is the
\* largest of its children's.
EmbeddedAlignment ==
  Serialized =>
    /\ AlignmentsDeclared(Type)
    /\ \A j \in 1..Len(written.places) :
         LET p == written.places[j] IN
         /\ p.at % p.alignment = 0
         /\ p.alignment \in {1, 2, 4, 8}
         /\ p.from <= p.at
         /\ \A b \in (p.from + 1)..p.at : data[b] = 0

\* C7, its case: a value was embedded after padding
PaddingInserted ==
  /\ Serialized
  /\ \E j \in 1..Len(written.places) :
       written.places[j].from < written.places[j].at

\* C8: variant without separator: a variant frame with no zero byte (the
\* empty frame among them) reads as the default { type: "()", value: [] }.
VariantWithoutSeparator ==
  /\ pc = "parsed"
  /\ typestr = Str(<<"v">>)
  /\ \A j \in 1..Len(data) : data[j] # 0
  => result = defaultValue(Type)

\* C9: fixed-size array layout: an array of n fixed-size elements (no empty
\* tuple in the element type) is written with element i at i * fixedSize
\* from its start and n * fixedSize bytes in all, and parses to n elements.
FixedArrayLayout ==
  /\ Serialized =>
       \A j \in 1..Len(written.frames) :
         LET f == written.frames[j]
             type == parseType(f.id)
         IN Code(type, "a") /\ Truthy(type.elements[1].fixedSize)
              /\ ~HasEmptyTuple(type) =>
              /\ \A i \in 1..Len(f.at) :
                   f.at[i] = f.start + (i - 1) * type.elements[1].fixedSize
              /\ f.end - f.start = Len(f.at) * type.elements[1].fixedSize
  /\ pc = "parsed" /\ Code(Type, "a") /\ Truthy(Type.elements[1].fixedSize)
       /\ ~HasEmptyTuple(Type) =>
       /\ ~IsThrow(result)
       /\ Len(result.v) = Len(Canonical(Type, value).v)

\* C10: tuple offset pairing: in a tuple frame of at most 0xFF bytes that
\* serialize wrote there is one cell per variable-size child that is not
\* the last, and the reader's k-th tail read is start plus the end offset
\* recorded for the k-th such child; a variable-size last child is read up
\* to end minus the cells.
TupleOffsetPairing ==
  Serialized =>
    \A j \in 1..Len(written.frames) :
      LET f == written.frames[j]
          type == parseType(f.id)
          n == Len(type.elements)
          m == Cardinality(Offsetted(type))
          w == TupleWindows(type, data, f.start, f.end, 1, f.start, 0, <<>>)
      IN Code(type, "(") /\ f.end - f.start <= 255 =>
           /\ f.end - f.tableAt = m * offsetInfo(data, f.start, f.end).size
           /\ Len(f.recorded) = m
           /\ \A k \in 1..m :
                /\ OffsetInBuf(data, f.start, f.end, -k)
                /\ OffsetRead(data, f.start, f.end, -k) = f.start + f.recorded[k]
           /\ ~w.thrown
           /\ \A k \in 1..m :
                w.windows[NthOffsetted(type, k)].next = f.start + f.recorded[k]
           /\ n > 0 /\ ~Truthy(type.elements[n].fixedSize) =>
                w.windows[n].next
                  = f.end - m * offsetInfo(data, f.start, f.end).size

\* C10, its case: a tuple frame with two offset cells was written
TwoOffsetsWritten ==
  /\ Serialized
  /\ \E j \in 1..Len(written.frames) :
       LET f == written.frames[j] IN
       /\ f.id[1] = Ord["("]
       /\ f.end - f.start <= 255
       /\ Len(f.recorded) = 2
       /\ f.recorded[1] # f.recorded[2]

=============================================================================
